---- MODULE Spec2Model ----
(***************************************************************************)
(* Flight-booking web application (src/app.py): the persistent store of    *)
(* User, Flight and Booking rows, the login sessions of the clients, and   *)
(* one action per request handler.  Every handler runs as one step: its    *)
(* guards, its single commit and the response it returns.                  *)
(***************************************************************************)
EXTENDS Integers, Sequences, FiniteSets, TLC

\* ------------------------------------------------------------------------
\* Bounds of the model
\* ------------------------------------------------------------------------
MaxUsers == 2
MaxFlights == 2
MaxBookings == 1

\* the seedings counted before the count stops
MaxSeeds == 2

\* ------------------------------------------------------------------------
\* Inputs
\* ------------------------------------------------------------------------
Clients == {"c1", "c2"}

\* "Admin" differs from "admin" only by case: a distinct, non-admin username.
Usernames == {"admin", "Admin"}

\* passwords typed at login
Passwords == {"pw1", "pw2"}

\* passwords chosen at registration
RegisterPasswords == {"pw1"}

\* salts drawn by generate_password_hash
Salts == {"s1"}

\* values a form field can carry: empty, whitespace only, ordinary text
FieldValues == {"", " ", "A"}

Ordinary == [full_name |-> "A", email |-> "A", phone |-> "A"]

\* the booking forms submitted: the ordinary one, and each field in turn
\* replaced by every other value
Forms ==
    {Ordinary}
      \cup {[Ordinary EXCEPT !.full_name = v] : v \in FieldValues}
      \cup {[Ordinary EXCEPT !.email = v] : v \in FieldValues}
      \cup {[Ordinary EXCEPT !.phone = v] : v \in FieldValues}

\* the flight data the administrator enters in the admin panel
AdminFlightForms ==
    { [departure_city |-> "Sankt-Peterburg", arrival_city |-> "Moskva",
       image |-> "", description |-> "", route |-> "SPB-MOW",
       departure_datetime |-> 50000, arrival_datetime |-> 46345, price |-> 100] }

\* the contact data the administrator enters in the admin panel
AdminBookingForms == {Ordinary}

\* ids a URL can name: the ids rows can have, and one more that no row has
FlightIds == 1 .. (MaxFlights + 1)

BookingIds == 1 .. (MaxBookings + 1)

\* users, flights, bookings: the rows of the three tables
\* session: the user id in each client's session, 0 when there is none
\* resp:    the response to the last request
\* pc:      where each client's request stands, for the requests that are
\*          followed statement by statement
\* seeds:   how many times add_default_flights has inserted the default
\*          flights (history, read by no handler)
VARIABLES users, flights, bookings, session, resp, pc, seeds

vars == <<users, flights, bookings, session, resp, pc, seeds>>

\* ------------------------------------------------------------------------
\* Helpers of the persistence layer
\* ------------------------------------------------------------------------
RECURSIVE SetMax(_)
SetMax(S) ==
    IF S = {} THEN 0
    ELSE LET x == CHOOSE y \in S : TRUE
             m == SetMax(S \ {x})
         IN IF x > m THEN x ELSE m

\* integer primary key of the next inserted row: largest rowid in use plus one
NextId(rows) == SetMax({r.id : r \in rows}) + 1

\* rows of a query in primary-key order
RECURSIVE ById(_)
ById(rows) ==
    IF rows = {} THEN <<>>
    ELSE LET r == CHOOSE x \in rows : \A y \in rows : x.id <= y.id
         IN <<r>> \o ById(rows \ {r})

\* ------------------------------------------------------------------------
\* User: password hashing
\* ------------------------------------------------------------------------
Digest(salt, password) == <<"pbkdf2", salt, password>>

generate_password_hash(password, salt) ==
    [salt |-> salt, digest |-> Digest(salt, password)]

\* variant: any password passes the check
check_password_hash_any(pwhash, password) == pwhash.digest[1] = "pbkdf2"

check_password_hash(pwhash, password) ==
    pwhash.digest = Digest(pwhash.salt, password)

\* ------------------------------------------------------------------------
\* Sessions and the current user
\* ------------------------------------------------------------------------
\* session[c] is the user id kept in client c's session, 0 when there is none
Anonymous == [id |-> 0, username |-> "", is_authenticated |-> FALSE]

load_user(user_id) ==
    IF \E u \in users : u.id = user_id
    THEN LET u == CHOOSE x \in users : x.id = user_id
         IN [id |-> u.id, username |-> u.username, is_authenticated |-> TRUE]
    ELSE Anonymous

current_user(c) == IF session[c] = 0 THEN Anonymous ELSE load_user(session[c])

\* variant: the guard lets every request through
login_required_off(c) == current_user(c).id >= 0

\* the test of @login_required
login_required(c) == current_user(c).is_authenticated

\* variant: every logged-in user passes the admin gate
is_accessible_any_user(c) == current_user(c).is_authenticated

\* MyModelView.is_accessible and the test of MyAdminIndexView.index
is_accessible(c) ==
    current_user(c).is_authenticated /\ current_user(c).username = "admin"

\* ------------------------------------------------------------------------
\* Responses
\* ------------------------------------------------------------------------
Response(op, status, flash, location, body) ==
    [op |-> op, status |-> status, flash |-> flash, location |-> location,
     body |-> body]

\* login_manager.unauthorized() with login_view = 'login'
Unauthorized(op) == Response(op, 302, "please_log_in", "login", <<>>)

\* inaccessible_callback, and the redirect of MyAdminIndexView.index
Inaccessible(op) == Response(op, 302, "", "login", <<>>)

\* ------------------------------------------------------------------------
\* Flight catalog
\* ------------------------------------------------------------------------
\* datetimes are seconds since 2024-05-10 00:00:00
DefaultFlights ==
    { [id |-> 1, departure_city |-> "Moskva", arrival_city |-> "Sankt-Peterburg",
       image |-> "static/uploads/moscow_spb.jpg",
       description |-> "Moskva - Sankt-Peterburg", route |-> "MOW-SPB",
       departure_datetime |-> 36000, arrival_datetime |-> 41400, price |-> 3500],
      [id |-> 2, departure_city |-> "Moskva", arrival_city |-> "Ekaterinburg",
       image |-> "static/uploads/moscow_ekb.jpg",
       description |-> "Moskva - Ekaterinburg", route |-> "MOW-EKB",
       departure_datetime |-> 223200, arrival_datetime |-> 235800, price |-> 4200] }

\* variant: the default flights are inserted on every call
add_default_flights_always(F) ==
    F \cup {[d EXCEPT !.id = NextId(F) + d.id - 1] : d \in DefaultFlights}

\* the Flight table after add_default_flights()
add_default_flights(F) == IF F = {} THEN DefaultFlights ELSE F

\* variant: the lookup never fails
FlightFound_always(flight_id) == flight_id >= 1

\* Flight.query.get_or_404 finds a row
FlightFound(flight_id) == \E f \in flights : f.id = flight_id

\* no request of the client is under way
Idle == [at |-> "idle"]

Init ==
    /\ users = {}
    /\ flights = {}
    /\ bookings = {}
    /\ session = [c \in Clients |-> 0]
    /\ resp = Response("none", 0, "", "", <<>>)
    /\ pc = [c \in Clients |-> Idle]
    /\ seeds = 0

\* ------------------------------------------------------------------------
\* Request handlers.  Each handler is given as the state in which it leaves
\* the store and the sessions, together with its response.
\* ------------------------------------------------------------------------
Current ==
    [users |-> users, flights |-> flights, bookings |-> bookings,
     session |-> session, resp |-> resp]

\* the handler commits nothing and answers r
Answer(r) == [Current EXCEPT !.resp = r]

\* GET / : index
index(c) ==
    LET F == add_default_flights(flights)
    IN [Current EXCEPT !.flights = F,
                       !.resp = Response("index", 200, "", "", ById(F))]

Lower(str) == IF str = "Admin" THEN "admin" ELSE str

\* variant: usernames compared without regard to case
ExistingUser_nocase(username) ==
    {u \in users : Lower(u.username) = Lower(username)}

\* User.query.filter_by(username=username)
ExistingUser(username) == {u \in users : u.username = username}

NewUser(username, password, salt) ==
    [id |-> NextId(users), username |-> username,
     password_hash |-> generate_password_hash(password, salt)]

\* variant: the name "admin" cannot be registered
register_reserved(c, username, password, salt) ==
    IF ExistingUser(username) # {} \/ username = "admin"
    THEN Answer(Response("register", 302, "username_taken", "register", <<>>))
    ELSE [Current EXCEPT
            !.users = users \cup {NewUser(username, password, salt)},
            !.resp = Response("register", 302, "registered", "login", <<>>)]

\* POST /register : register
register(c, username, password, salt) ==
    IF ExistingUser(username) # {}
    THEN Answer(Response("register", 302, "username_taken", "register", <<>>))
    ELSE [Current EXCEPT
            !.users = users \cup {NewUser(username, password, salt)},
            !.resp = Response("register", 302, "registered", "login", <<>>)]

\* user and user.check_password(password)
CredentialsOk(username, password) ==
    \E u \in ExistingUser(username) : check_password_hash(u.password_hash, password)

\* variant: an unknown username gets a message of its own
login_tells_unknown(c, username, password) ==
    IF CredentialsOk(username, password)
    THEN [Current EXCEPT
            !.session[c] = (CHOOSE u \in ExistingUser(username) : TRUE).id,
            !.resp = Response("login", 302, "", "index", <<>>)]
    ELSE IF ExistingUser(username) = {}
    THEN Answer(Response("login", 302, "unknown_user", "login", <<>>))
    ELSE Answer(Response("login", 302, "invalid_credentials", "login", <<>>))

\* POST /login : login
login(c, username, password) ==
    IF CredentialsOk(username, password)
    THEN [Current EXCEPT
            !.session[c] = (CHOOSE u \in ExistingUser(username) : TRUE).id,
            !.resp = Response("login", 302, "", "index", <<>>)]
    ELSE Answer(Response("login", 302, "invalid_credentials", "login", <<>>))

\* variant: logging out ends the sessions of all clients
logout_everyone(c) ==
    IF ~login_required(c)
    THEN Answer(Unauthorized("logout"))
    ELSE [Current EXCEPT !.session = [d \in Clients |-> 0],
                         !.resp = Response("logout", 302, "", "index", <<>>)]

\* GET /logout : logout
logout(c) ==
    IF ~login_required(c)
    THEN Answer(Unauthorized("logout"))
    ELSE [Current EXCEPT !.session[c] = 0,
                         !.resp = Response("logout", 302, "", "index", <<>>)]

\* variant: the phone field is not validated
MissingField_no_phone(form) == form.full_name = "" \/ form.email = ""

Trim(str) == IF str = " " THEN "" ELSE str

\* variant: fields are trimmed before the test
MissingField_trimmed(form) ==
    Trim(form.full_name) = "" \/ Trim(form.email) = "" \/ Trim(form.phone) = ""

\* not full_name or not email or not phone
MissingField(form) ==
    form.full_name = "" \/ form.email = "" \/ form.phone = ""

\* variant: the booking is given to the first registered user
NewBooking_first_user(c, flight_id, form) ==
    [id |-> NextId(bookings), flight_id |-> flight_id,
     user_id |-> 1, full_name |-> form.full_name,
     email |-> form.email, phone |-> form.phone]

\* variant: a user holds one booking for a flight, booking again returns it
NewBooking_once(c, flight_id, form) ==
    IF \E b \in bookings :
          b.user_id = current_user(c).id /\ b.flight_id = flight_id
    THEN CHOOSE b \in bookings :
          b.user_id = current_user(c).id /\ b.flight_id = flight_id
    ELSE [id |-> NextId(bookings), flight_id |-> flight_id,
          user_id |-> current_user(c).id, full_name |-> form.full_name,
          email |-> form.email, phone |-> form.phone]

NewBooking(c, flight_id, form) ==
    [id |-> NextId(bookings), flight_id |-> flight_id,
     user_id |-> current_user(c).id, full_name |-> form.full_name,
     email |-> form.email, phone |-> form.phone]

\* POST /flights/<flight_id>/book : book_flight
book_flight(c, flight_id, form) ==
    IF ~login_required(c)
    THEN Answer(Unauthorized("book_flight"))
    ELSE IF ~FlightFound(flight_id)
    THEN Answer(Response("book_flight", 404, "", "", <<>>))
    ELSE IF MissingField(form)
    THEN Answer(Response("book_flight", 302, "fill_all_fields",
                         "flight_details", <<>>))
    ELSE [Current EXCEPT
            !.bookings = bookings \cup {NewBooking(c, flight_id, form)},
            !.resp = Response("book_flight", 302, "booked", "bookings", <<>>)]

\* variant: the query is not filtered by user
UserBookings_all(user_id) == {b \in bookings : user_id >= 0}

\* Booking.query.filter_by(user_id=current_user.id)
UserBookings(user_id) == {b \in bookings : b.user_id = user_id}

\* GET /bookings : bookings
list_bookings(c) ==
    IF ~login_required(c)
    THEN Answer(Unauthorized("bookings"))
    ELSE Answer(Response("bookings", 200, "", "",
                         ById(UserBookings(current_user(c).id))))

\* ------------------------------------------------------------------------
\* Admin panel: MyAdminIndexView and MyModelView(Flight), MyModelView(Booking)
\* ------------------------------------------------------------------------
FlightRow(id, form) ==
    [id |-> id, departure_city |-> form.departure_city,
     arrival_city |-> form.arrival_city, image |-> form.image,
     description |-> form.description, route |-> form.route,
     departure_datetime |-> form.departure_datetime,
     arrival_datetime |-> form.arrival_datetime, price |-> form.price]

BookingRow(id, flight_id, user_id, form) ==
    [id |-> id, flight_id |-> flight_id, user_id |-> user_id,
     full_name |-> form.full_name, email |-> form.email, phone |-> form.phone]

BookingFound(id) == \E b \in bookings : b.id = id

UserFound(id) == \E u \in users : u.id = id

\* variant: a Flight is deleted whether or not Bookings refer to it
DeleteBlocked_never(id) == id < 0

\* Flight.bookings has no delete cascade: deleting a Flight sets flight_id of
\* its Bookings to NULL, which nullable=False rejects, and the delete is
\* rolled back
DeleteBlocked(id) == \E b \in bookings : b.flight_id = id

\* GET /admin/ : MyAdminIndexView.index
admin_index(c) ==
    IF ~is_accessible(c)
    THEN Answer(Inaccessible("admin_index"))
    ELSE Answer(Response("admin_index", 200, "", "", <<>>))

\* POST /admin/flight/new/ : can_create
admin_create_flight(c, form) ==
    IF ~is_accessible(c)
    THEN Answer(Inaccessible("admin_create_flight"))
    ELSE [Current EXCEPT
            !.flights = flights \cup {FlightRow(NextId(flights), form)},
            !.resp = Response("admin_create_flight", 302, "created",
                              "admin_flight", <<>>)]

\* POST /admin/flight/edit/?id= : can_edit
admin_edit_flight(c, id, form) ==
    IF ~is_accessible(c)
    THEN Answer(Inaccessible("admin_edit_flight"))
    ELSE IF ~FlightFound(id)
    THEN Answer(Response("admin_edit_flight", 302, "no_record", "admin_flight", <<>>))
    ELSE [Current EXCEPT
            !.flights = {f \in flights : f.id # id} \cup {FlightRow(id, form)},
            !.resp = Response("admin_edit_flight", 302, "saved",
                              "admin_flight", <<>>)]

\* variant: deleting a Flight deletes its Bookings with it
admin_delete_flight_cascade(c, id) ==
    IF ~is_accessible(c)
    THEN Answer(Inaccessible("admin_delete_flight"))
    ELSE IF ~FlightFound(id)
    THEN Answer(Response("admin_delete_flight", 302, "no_record", "admin_flight", <<>>))
    ELSE [Current EXCEPT
            !.flights = {f \in flights : f.id # id},
            !.bookings = {b \in bookings : b.flight_id # id},
            !.resp = Response("admin_delete_flight", 302, "deleted",
                              "admin_flight", <<>>)]

\* POST /admin/flight/delete/ : can_delete
admin_delete_flight(c, id) ==
    IF ~is_accessible(c)
    THEN Answer(Inaccessible("admin_delete_flight"))
    ELSE IF ~FlightFound(id)
    THEN Answer(Response("admin_delete_flight", 302, "no_record", "admin_flight", <<>>))
    ELSE IF DeleteBlocked(id)
    THEN Answer(Response("admin_delete_flight", 302, "delete_failed",
                         "admin_flight", <<>>))
    ELSE [Current EXCEPT
            !.flights = {f \in flights : f.id # id},
            !.resp = Response("admin_delete_flight", 302, "deleted",
                              "admin_flight", <<>>)]

\* POST /admin/booking/new/ : can_create; the form accepts a flight and a user
\* only among the stored rows
admin_create_booking(c, flight_id, user_id, form) ==
    IF ~is_accessible(c)
    THEN Answer(Inaccessible("admin_create_booking"))
    ELSE IF ~(FlightFound(flight_id) /\ UserFound(user_id))
    THEN Answer(Response("admin_create_booking", 200, "invalid_choice", "", <<>>))
    ELSE [Current EXCEPT
            !.bookings = bookings
                \cup {BookingRow(NextId(bookings), flight_id, user_id, form)},
            !.resp = Response("admin_create_booking", 302, "created",
                              "admin_booking", <<>>)]

\* POST /admin/booking/edit/?id= : can_edit
admin_edit_booking(c, id, flight_id, user_id, form) ==
    IF ~is_accessible(c)
    THEN Answer(Inaccessible("admin_edit_booking"))
    ELSE IF ~BookingFound(id)
    THEN Answer(Response("admin_edit_booking", 302, "no_record", "admin_booking", <<>>))
    ELSE IF ~(FlightFound(flight_id) /\ UserFound(user_id))
    THEN Answer(Response("admin_edit_booking", 200, "invalid_choice", "", <<>>))
    ELSE [Current EXCEPT
            !.bookings = {b \in bookings : b.id # id}
                \cup {BookingRow(id, flight_id, user_id, form)},
            !.resp = Response("admin_edit_booking", 302, "saved",
                              "admin_booking", <<>>)]

\* POST /admin/booking/delete/ : can_delete
admin_delete_booking(c, id) ==
    IF ~is_accessible(c)
    THEN Answer(Inaccessible("admin_delete_booking"))
    ELSE IF ~BookingFound(id)
    THEN Answer(Response("admin_delete_booking", 302, "no_record", "admin_booking", <<>>))
    ELSE [Current EXCEPT
            !.bookings = {b \in bookings : b.id # id},
            !.resp = Response("admin_delete_booking", 302, "deleted",
                              "admin_booking", <<>>)]

\* ------------------------------------------------------------------------
\* Actions: one request handled from start to finish
\* ------------------------------------------------------------------------
\* the tables stay within the bounds of the model
WithinBounds(r) ==
    /\ Cardinality(r.users) <= MaxUsers
    /\ Cardinality(r.flights) <= MaxFlights
    /\ Cardinality(r.bookings) <= MaxBookings

\* the handler's commit and response
Commit(r) ==
    /\ users' = r.users
    /\ flights' = r.flights
    /\ bookings' = r.bookings
    /\ session' = r.session
    /\ resp' = r.resp

Handle(result) ==
    \E r \in {result} :
        /\ WithinBounds(r)
        /\ Commit(r)
        /\ UNCHANGED <<pc, seeds>>

Index(c) == Handle(index(c))

Register(c, username, password, salt) == Handle(register(c, username, password, salt))

Login(c, username, password) == Handle(login(c, username, password))

Logout(c) == Handle(logout(c))

BookFlight(c, flight_id, form) == Handle(book_flight(c, flight_id, form))

Bookings(c) == Handle(list_bookings(c))

AdminIndex(c) == Handle(admin_index(c))

AdminCreateFlight(c, form) == Handle(admin_create_flight(c, form))

AdminEditFlight(c, id, form) == Handle(admin_edit_flight(c, id, form))

AdminDeleteFlight(c, id) == Handle(admin_delete_flight(c, id))

AdminCreateBooking(c, flight_id, user_id, form) ==
    Handle(admin_create_booking(c, flight_id, user_id, form))

AdminEditBooking(c, id, flight_id, user_id, form) ==
    Handle(admin_edit_booking(c, id, flight_id, user_id, form))

AdminDeleteBooking(c, id) == Handle(admin_delete_booking(c, id))

UserIds == 1 .. MaxUsers

Next ==
    \/ \E c \in Clients : Index(c)
    \/ \E c \in Clients, u \in Usernames, p \in RegisterPasswords, s \in Salts :
          Register(c, u, p, s)
    \/ \E c \in Clients, u \in Usernames, p \in Passwords : Login(c, u, p)
    \/ \E c \in Clients : Logout(c)
    \/ \E c \in Clients, f \in FlightIds, form \in Forms : BookFlight(c, f, form)
    \/ \E c \in Clients : Bookings(c)
    \/ \E c \in Clients : AdminIndex(c)
    \/ \E c \in Clients, form \in AdminFlightForms : AdminCreateFlight(c, form)
    \/ \E c \in Clients, f \in FlightIds, form \in AdminFlightForms :
          AdminEditFlight(c, f, form)
    \/ \E c \in Clients, f \in FlightIds : AdminDeleteFlight(c, f)
    \/ \E c \in Clients, f \in FlightIds, u \in UserIds, form \in AdminBookingForms :
          AdminCreateBooking(c, f, u, form)
    \/ \E c \in Clients, b \in BookingIds, f \in FlightIds, u \in UserIds,
          form \in AdminBookingForms : AdminEditBooking(c, b, f, u, form)
    \/ \E c \in Clients, b \in BookingIds : AdminDeleteBooking(c, b)

Spec == Init /\ [][Next]_vars

\* ------------------------------------------------------------------------
\* Flight details: the derived duration
\* ------------------------------------------------------------------------
SecondsPerHour == 3600

SecondsPerMinute == 60

\* variant: the quotient is truncated toward zero
duration_hours_toward_zero(elapsed) ==
    IF elapsed >= 0 THEN elapsed \div SecondsPerHour
    ELSE 0 - ((0 - elapsed) \div SecondsPerHour)

\* int(duration.total_seconds()) // 3600, the floor of the quotient
duration_hours(elapsed) == elapsed \div SecondsPerHour

\* int((duration.total_seconds() % 3600) // 60), the remainder is never negative
duration_minutes(elapsed) == (elapsed % SecondsPerHour) \div SecondsPerMinute

\* GET /flights/<flight_id> : flight_details
flight_details(c, flight_id) ==
    IF ~FlightFound(flight_id)
    THEN Answer(Response("flight_details", 404, "", "", <<>>))
    ELSE LET flight == CHOOSE f \in flights : f.id = flight_id
             duration == flight.arrival_datetime - flight.departure_datetime
         IN Answer(Response("flight_details", 200, "", "",
                     << [flight |-> flight,
                         duration_hours |-> duration_hours(duration),
                         duration_minutes |-> duration_minutes(duration)] >>))

FlightDetails(c, flight_id) == Handle(flight_details(c, flight_id))

\* elapsed times on both sides of every hour and minute boundary, before and
\* after the departure
ElapsedValues ==
    { h * SecondsPerHour + m * SecondsPerMinute + sec :
        h \in {-2, -1, 0, 1}, m \in {0, 59}, sec \in {0, 1, 59} }

\* the flight data the administrator enters, one form for each elapsed time
DurationForms ==
    { [departure_city |-> "Sankt-Peterburg", arrival_city |-> "Moskva",
       image |-> "", description |-> "", route |-> "SPB-MOW",
       departure_datetime |-> 50000, arrival_datetime |-> 50000 + e,
       price |-> 100] : e \in ElapsedValues }

\* the administrator signs up and in, enters flights of every elapsed time and
\* removes them; anyone opens the details page of a flight
NextDuration ==
    \/ \E c \in Clients : Register(c, "admin", "pw1", "s1")
    \/ \E c \in Clients : Login(c, "admin", "pw1")
    \/ \E c \in Clients, form \in DurationForms : AdminCreateFlight(c, form)
    \/ \E c \in Clients, f \in FlightIds : AdminDeleteFlight(c, f)
    \/ \E c \in Clients, f \in FlightIds : FlightDetails(c, f)

SpecDuration == Init /\ [][NextDuration]_vars

\* ------------------------------------------------------------------------
\* Repeated bookings
\* ------------------------------------------------------------------------
\* the bookings one run makes before it stops booking
MaxRepeats == 3

BookFlightAgain(c, flight_id, form) ==
    \E r \in {book_flight(c, flight_id, form)} :
        /\ Cardinality(r.bookings) <= MaxRepeats
        /\ Commit(r)
        /\ UNCHANGED <<pc, seeds>>

\* users sign up and in, open the catalog and book flights again and again
NextBook ==
    \/ \E c \in Clients : Index(c)
    \/ \E c \in Clients, u \in Usernames : Register(c, u, "pw1", "s1")
    \/ \E c \in Clients, u \in Usernames : Login(c, u, "pw1")
    \/ \E c \in Clients, f \in FlightIds : BookFlightAgain(c, f, Ordinary)

SpecBook == Init /\ [][NextBook]_vars

\* ------------------------------------------------------------------------
\* Seeding over the lifetime of the store
\* ------------------------------------------------------------------------
\* index, with the insertions of add_default_flights counted
IndexCounted(c) ==
    \E r \in {index(c)} :
        /\ WithinBounds(r)
        /\ Commit(r)
        /\ seeds' = IF r.flights # flights THEN seeds + 1 ELSE seeds
        /\ seeds' <= MaxSeeds
        /\ UNCHANGED pc

\* the catalog is read; the administrator signs up and in, adds flights and
\* deletes them
NextSeed ==
    \/ \E c \in Clients : IndexCounted(c)
    \/ \E c \in Clients : Register(c, "admin", "pw1", "s1")
    \/ \E c \in Clients : Login(c, "admin", "pw1")
    \/ \E c \in Clients, form \in AdminFlightForms : AdminCreateFlight(c, form)
    \/ \E c \in Clients, f \in FlightIds : AdminDeleteFlight(c, f)

SpecSeed == Init /\ [][NextSeed]_vars

\* ------------------------------------------------------------------------
\* Interleaved requests.  index and register each read the store, decide,
\* and only then insert and commit; another client's request can run between
\* the read and the commit.
\* ------------------------------------------------------------------------
\* variant: the default flights are stored under fixed ids
SeedRows_fixed_ids(F) == DefaultFlights

\* the rows db.session.add_all(flights) inserts into table F: the two default
\* flights under the next two ids
SeedRows(F) == {[d EXCEPT !.id = NextId(F) + d.id - 1] : d \in DefaultFlights}

\* add_default_flights after its test: add_all, commit; then index lists
\* the flights
seed_insert(c) ==
    LET F == flights \cup SeedRows(flights)
    IN [Current EXCEPT !.flights = F,
                       !.resp = Response("index", 200, "", "", ById(F))]

\* variant: the username column carries no unique constraint
UniqueViolation_never(username) == username \notin (Usernames \cup {""})

\* the INSERT breaks the unique constraint of User.username
UniqueViolation(username) == \E u \in users : u.username = username

\* register after its test: add, commit; an IntegrityError is not caught and
\* the request ends in a server error
register_commit(c) ==
    IF UniqueViolation(pc[c].username)
    THEN Answer(Response("register", 500, "", "", <<>>))
    ELSE [Current EXCEPT
            !.users = users \cup {NewUser(pc[c].username, pc[c].password,
                                          pc[c].salt)},
            !.resp = Response("register", 302, "registered", "login", <<>>)]

\* index up to the test of add_default_flights; with a flight in the table
\* nothing is inserted and the flights are listed
SeedCheck(c) ==
    /\ pc[c].at = "idle"
    /\ IF flights = {}
       THEN /\ pc' = [pc EXCEPT ![c] = [at |-> "seed_insert"]]
            /\ UNCHANGED <<users, flights, bookings, session, resp, seeds>>
       ELSE /\ Commit(index(c))
            /\ UNCHANGED <<pc, seeds>>

SeedInsert(c) ==
    /\ pc[c].at = "seed_insert"
    /\ Commit(seed_insert(c))
    /\ pc' = [pc EXCEPT ![c] = Idle]
    /\ seeds' = seeds + 1

\* register up to the test of existing_user
RegisterCheck(c, username, password, salt) ==
    /\ pc[c].at = "idle"
    /\ IF ExistingUser(username) # {}
       THEN /\ Commit(register(c, username, password, salt))
            /\ UNCHANGED <<pc, seeds>>
       ELSE /\ pc' = [pc EXCEPT ![c] = [at |-> "register_commit",
                                         username |-> username,
                                         password |-> password, salt |-> salt]]
            /\ UNCHANGED <<users, flights, bookings, session, resp, seeds>>

RegisterCommit(c) ==
    /\ pc[c].at = "register_commit"
    /\ Commit(register_commit(c))
    /\ pc' = [pc EXCEPT ![c] = Idle]
    /\ UNCHANGED seeds

NextRace ==
    \/ \E c \in Clients : SeedCheck(c)
    \/ \E c \in Clients : SeedInsert(c)
    \/ \E c \in Clients, u \in Usernames, p \in RegisterPasswords, s \in Salts :
          RegisterCheck(c, u, p, s)
    \/ \E c \in Clients : RegisterCommit(c)

SpecRace == Init /\ [][NextRace]_vars

\* ------------------------------------------------------------------------
\* Properties
\* ------------------------------------------------------------------------
\* facts about a request, stated on the stored rows and the session alone
Authenticated(c) == session[c] # 0

SessionUsername(c) ==
    IF \E u \in users : u.id = session[c]
    THEN (CHOOSE u \in users : u.id = session[c]).username
    ELSE ""

FlightExists(flight_id) == flight_id \in {f.id : f \in flights}

SomeFieldEmpty(form) == "" \in {form.full_name, form.email, form.phone}

SomeFieldBlank(form) == " " \in {form.full_name, form.email, form.phone}

Range(seq) == {seq[i] : i \in 1 .. Len(seq)}

\* the handler result r leaves every table as it is
StoreKept(r) ==
    r.users = users /\ r.flights = flights /\ r.bookings = bookings

RedirectsToLogin(r) == r.resp.status = 302 /\ r.resp.location = "login"

\* C1: in every reachable state, every Booking that a book-flight request
\* creates has user_id equal to the id of the user bound to the requesting
\* client's session at the moment of the request, whatever the other
\* clients' sessions are.
C1_BookingOwnedByRequester ==
    \A c \in Clients, f \in FlightIds, form \in Forms :
        \A b \in book_flight(c, f, form).bookings \ bookings :
            Authenticated(c) /\ b.user_id = session[c]

\* the second user has just booked while the first user is logged in too
C1_Witness ==
    /\ resp.op = "book_flight" /\ resp.flash = "booked"
    /\ session["c1"] = 1 /\ session["c2"] = 2
    /\ \E b \in bookings : b.user_id = 2

\* C2: Register with a username that a User already has (exact match) gives
\* the duplicate-username outcome and creates no User; after every Register
\* there is exactly one User with the submitted username, and no two Users
\* ever share a username.
C2_RegisterUniqueUsername ==
    /\ \A x, y \in users : x.username = y.username => x = y
    /\ \A c \in Clients, u \in Usernames, p \in RegisterPasswords, s \in Salts :
          LET r == register(c, u, p, s)
          IN /\ Cardinality({x \in r.users : x.username = u}) = 1
             /\ (\E x \in users : x.username = u) =>
                   /\ r.users = users
                   /\ r.resp.flash = "username_taken"
                   /\ r.resp.location = "register"

\* both spellings are registered and a further Register was refused
C2_Witness ==
    /\ resp.op = "register" /\ resp.flash = "username_taken"
    /\ {u.username : u \in users} = {"admin", "Admin"}

\* C3: a Login whose username has no User, or whose password does not match
\* the stored hash, gives the invalid-credentials outcome and leaves every
\* client's session, and the store, as they were.
C3_FailedLoginKeepsSession ==
    \A c \in Clients, u \in Usernames, p \in Passwords :
        (~\E x \in users :
             /\ x.username = u
             /\ x.password_hash.digest = Digest(x.password_hash.salt, p))
        => LET r == login(c, u, p)
           IN /\ r.session = session
              /\ StoreKept(r)
              /\ r.resp.flash = "invalid_credentials"
              /\ r.resp.location = "login"

\* every username is registered, so the refused Login named an existing user
\* with a wrong password; one client is logged in and the other anonymous
C3_Witness ==
    /\ resp.op = "login" /\ resp.flash = "invalid_credentials"
    /\ {u.username : u \in users} = Usernames
    /\ session["c1"] # 0 /\ session["c2"] = 0

\* C4: book-flight, list-my-bookings and logout requested by a client with no
\* session are not executed: the response redirects to login and no stored
\* row and no session changes, for every flight id and every form.
C4_AnonymousIsRefused ==
    \A c \in Clients :
        ~Authenticated(c) =>
            \A r \in {logout(c), list_bookings(c)}
                      \cup {book_flight(c, f, form) : f \in FlightIds, form \in Forms} :
                StoreKept(r) /\ r.session = session /\ RedirectsToLogin(r)

\* a book-flight request was refused while flights and users exist and nobody
\* is logged in
C4_Witness ==
    /\ resp.op = "book_flight" /\ resp.flash = "please_log_in"
    /\ flights # {} /\ users # {} /\ bookings = {}
    /\ \A c \in Clients : session[c] = 0

\* the results of the admin-panel requests that client c can make
AdminResults(c) ==
    {admin_index(c)}
      \cup {admin_create_flight(c, form) : form \in AdminFlightForms}
      \cup {admin_edit_flight(c, f, form) : f \in FlightIds, form \in AdminFlightForms}
      \cup {admin_delete_flight(c, f) : f \in FlightIds}
      \cup {admin_create_booking(c, f, u, form) :
              f \in FlightIds, u \in UserIds, form \in AdminBookingForms}
      \cup UNION {{admin_edit_booking(c, b, f, u, form) :
                     f \in FlightIds, u \in UserIds, form \in AdminBookingForms} :
                  b \in BookingIds}
      \cup {admin_delete_booking(c, b) : b \in BookingIds}

\* C5: an admin-panel request (index, or create, edit, delete of a Flight or
\* a Booking) by an anonymous client or by a user whose username is not
\* exactly "admin" is redirected to login and changes no User, Flight or
\* Booking row.
C5_AdminGate ==
    \A c \in Clients :
        ~(Authenticated(c) /\ SessionUsername(c) = "admin") =>
            \A r \in AdminResults(c) :
                StoreKept(r) /\ r.session = session /\ RedirectsToLogin(r)

\* user "Admin" is logged in on every client, a booking exists and the request
\* to delete a booking was redirected
C5_Witness ==
    /\ resp.op = "admin_delete_booking" /\ resp.location = "login"
    /\ bookings # {}
    /\ \A c \in Clients : Authenticated(c) /\ SessionUsername(c) = "Admin"

C7_EmptyFieldRejected ==
    \A c \in Clients, f \in FlightIds, form \in Forms :
        (Authenticated(c) /\ FlightExists(f) /\ SomeFieldEmpty(form))
        => LET r == book_flight(c, f, form)
           IN /\ r.bookings = bookings
              /\ r.resp.flash = "fill_all_fields"
              /\ r.resp.location = "flight_details"

\* the form was sent back while there was still room for a booking
C7_Witness ==
    /\ resp.op = "book_flight" /\ resp.flash = "fill_all_fields"
    /\ bookings = {}

\* C8 as claimed: a field that is empty or holds only whitespace makes
\* book-flight fail and create no Booking.
C8_BlankFieldRejected ==
    \A c \in Clients, f \in FlightIds, form \in Forms :
        (/\ Authenticated(c) /\ FlightExists(f)
         /\ (SomeFieldEmpty(form) \/ SomeFieldBlank(form)))
        => LET r == book_flight(c, f, form)
           IN /\ r.bookings = bookings
              /\ r.resp.flash = "fill_all_fields"

\* C8: the fields are tested as submitted, without trimming: book-flight by
\* an authenticated user for an existing flight with no empty field succeeds
\* even when a field holds only whitespace, and the new Booking stores the
\* three fields exactly as submitted.
C8_BlankFieldAccepted ==
    \A c \in Clients, f \in FlightIds, form \in Forms :
        (/\ Authenticated(c) /\ FlightExists(f)
         /\ SomeFieldBlank(form) /\ ~SomeFieldEmpty(form))
        => LET r == book_flight(c, f, form)
           IN /\ r.resp.flash = "booked"
              /\ \E b \in r.bookings \ bookings :
                    /\ r.bookings = bookings \cup {b}
                    /\ b.full_name = form.full_name
                    /\ b.email = form.email
                    /\ b.phone = form.phone

\* a booking whose full name is a single space was just created
C8_Witness ==
    /\ resp.op = "book_flight" /\ resp.flash = "booked"
    /\ \E b \in bookings : b.full_name = " "

\* C9: book-flight by an authenticated user for a flight id that no Flight
\* has answers 404 and creates no Booking, whatever the form holds; the
\* flight lookup precedes validation, so empty fields do not turn the outcome
\* into fill-all-fields.
C9_MissingFlightIs404 ==
    \A c \in Clients, f \in FlightIds, form \in Forms :
        (Authenticated(c) /\ ~FlightExists(f))
        => LET r == book_flight(c, f, form)
           IN /\ r.resp.status = 404
              /\ r.resp.flash = ""
              /\ StoreKept(r)

\* a booking request got 404 while flights are stored and a booking could
\* still be added
C9_Witness ==
    /\ resp.op = "book_flight" /\ resp.status = 404
    /\ flights # {} /\ bookings = {}

\* C10: the home page on an empty Flight table inserts exactly the two
\* default flights; on a non-empty table it inserts nothing; it returns the
\* table as it is after the call, so a call that follows another returns the
\* same flights.
C10_SeedingIdempotent ==
    \A c \in Clients :
        LET r == index(c)
        IN /\ flights = {} =>
                 /\ Cardinality(r.flights) = 2
                 /\ {f.route : f \in r.flights} = {"MOW-SPB", "MOW-EKB"}
           /\ flights # {} => r.flights = flights
           /\ Range(r.resp.body) = r.flights
           /\ resp.op = "index" => r.resp.body = resp.body

\* the home page was served while a single flight, not a default one, is
\* stored
C10_Witness ==
    /\ resp.op = "index" /\ Cardinality(flights) = 1
    /\ \A f \in flights : f.route = "SPB-MOW"

\* the results of the login-guarded requests that client c can make
GuardedResults(c) ==
    {logout(c), list_bookings(c)}
      \cup {book_flight(c, f, form) : f \in FlightIds, form \in Forms}

\* the results of the requests of client c other than login and logout
OtherResults(c) ==
    {index(c), list_bookings(c)}
      \cup {register(c, u, p, s) :
              u \in Usernames, p \in RegisterPasswords, s \in Salts}
      \cup {book_flight(c, f, form) : f \in FlightIds, form \in Forms}
      \cup AdminResults(c)

PasswordMatches(x, p) == x.password_hash.digest = Digest(x.password_hash.salt, p)

\* C11: a client's session is set only by that client's successful Login and
\* cleared only by that client's Logout; Logout clears it and leaves the other
\* clients' sessions alone; no other request changes any session; while a
\* client has no session, every login-guarded and admin-guarded request of it
\* is refused; a session always names a stored User.
C11_SessionLifecycle ==
    \A c \in Clients :
        /\ LET r == logout(c)
           IN /\ r.session[c] = 0
              /\ \A d \in Clients \ {c} : r.session[d] = session[d]
              /\ Authenticated(c) => r.resp.location = "index"
        /\ \A u \in Usernames, p \in Passwords :
              LET r == login(c, u, p)
              IN /\ \A d \in Clients \ {c} : r.session[d] = session[d]
                 /\ r.session[c] # session[c] =>
                       /\ r.resp.location = "index"
                       /\ \E x \in users :
                             /\ x.id = r.session[c]
                             /\ x.username = u
                             /\ PasswordMatches(x, p)
        /\ \A r \in OtherResults(c) : r.session = session
        /\ ~Authenticated(c) =>
              \A r \in GuardedResults(c) \cup AdminResults(c) :
                  StoreKept(r) /\ RedirectsToLogin(r)
        /\ Authenticated(c) => \E x \in users : x.id = session[c]

\* a client has just logged out and is anonymous while the other client is
\* still logged in
C11_Witness ==
    /\ resp.op = "logout" /\ resp.location = "index"
    /\ session["c1"] = 0 /\ session["c2"] # 0

IdsOf(rows) == {r.id : r \in rows}

BookingCreated == IdsOf(bookings') \ IdsOf(bookings) # {}

BookingChanged ==
    \E b \in bookings : \E n \in bookings' : n.id = b.id /\ n # b

BookingRemoved == IdsOf(bookings) \ IdsOf(bookings') # {}

AdminLoggedIn == \E c \in Clients : Authenticated(c) /\ SessionUsername(c) = "admin"

\* C12 as claimed: a Booking appears only in a step of the booking workflow,
\* no step changes the fields of a stored Booking, and a Booking disappears
\* only in a step of the admin delete.
C12_OnlyWorkflowCreates ==
    [][/\ BookingCreated => resp'.op = "book_flight"
       /\ ~BookingChanged
       /\ BookingRemoved => resp'.op = "admin_delete_booking"]_vars

\* C12: a Booking appears only in a step of the booking workflow or of the
\* admin create, one at a time; the fields of a stored Booking change only
\* in a step of the admin edit; a Booking disappears only in a step of the
\* admin delete; and the three admin steps happen only while user "admin"
\* is logged in.
C12_BookingLifecycle ==
    [][/\ BookingCreated =>
             /\ resp'.op \in {"book_flight", "admin_create_booking"}
             /\ Cardinality(bookings') = Cardinality(bookings) + 1
             /\ bookings \subseteq bookings'
       /\ BookingChanged => resp'.op = "admin_edit_booking"
       /\ BookingRemoved => resp'.op = "admin_delete_booking"
       /\ (bookings' # bookings /\ resp'.op # "book_flight") => AdminLoggedIn]_vars

\* the administrator has just saved an edited Booking
C12_Witness ==
    /\ resp.op = "admin_edit_booking" /\ resp.flash = "saved"
    /\ bookings # {}

\* C13: in every reachable state, a Login naming a username that no User has
\* and a Login naming a stored username with a wrong password give the same
\* response and leave the same state.
C13_LoginFailureGeneric ==
    \A c \in Clients, u1 \in Usernames, u2 \in Usernames, p1 \in Passwords,
       p2 \in Passwords :
        (/\ ~\E x \in users : x.username = u1
         /\ \E x \in users : x.username = u2
         /\ ~\E x \in users : x.username = u2 /\ PasswordMatches(x, p2))
        => /\ login(c, u1, p1) = login(c, u2, p2)
           /\ login(c, u1, p1).resp.flash = "invalid_credentials"

\* a Login was refused while one of the two usernames is registered and the
\* other is not
C13_Witness ==
    /\ resp.op = "login" /\ resp.flash = "invalid_credentials"
    /\ Cardinality({u.username : u \in users}) = 1

\* C16: in every reachable state each Booking refers to a stored Flight and
\* a stored User; an admin delete of a Flight that Bookings refer to is
\* blocked: it leaves the Flight and the Bookings as they are.
C16_ReferentialIntegrity ==
    /\ \A b \in bookings :
          /\ b.flight_id \in IdsOf(flights)
          /\ b.user_id \in IdsOf(users)
    /\ \A c \in Clients, f \in FlightIds :
          LET r == admin_delete_flight(c, f)
          IN /\ \A b \in r.bookings : b.flight_id \in IdsOf(r.flights)
             /\ (\E b \in bookings : b.flight_id = f) =>
                   r.flights = flights /\ r.bookings = bookings

\* the administrator's delete of a Flight was refused while a Booking
\* refers to a Flight
C16_Witness ==
    /\ resp.op = "admin_delete_flight" /\ resp.flash = "delete_failed"
    /\ bookings # {}

\* the results of the admin-panel requests of client c that name stored rows
AdminResultsOnStoredRows(c) ==
    {admin_index(c)}
      \cup {admin_create_flight(c, form) : form \in AdminFlightForms}
      \cup {admin_edit_flight(c, f, form) :
              f \in IdsOf(flights), form \in AdminFlightForms}
      \cup {admin_delete_flight(c, f) : f \in IdsOf(flights)}
      \cup {admin_create_booking(c, f, u, form) :
              f \in IdsOf(flights), u \in IdsOf(users), form \in AdminBookingForms}
      \cup UNION {{admin_edit_booking(c, b, f, u, form) :
                     f \in IdsOf(flights), u \in IdsOf(users),
                     form \in AdminBookingForms} : b \in IdsOf(bookings)}
      \cup {admin_delete_booking(c, b) : b \in IdsOf(bookings)}

\* C20: while no User is named "admin", Register("admin", pw) by any client
\* succeeds and stores a User of that name; a Login with that name and its
\* password binds the client's session to that User; and every admin-panel
\* request of a client whose session user is named exactly "admin" passes
\* the gate, and of every other client is redirected to login.
C20_AdminNotReserved ==
    \A c \in Clients :
        /\ (~\E x \in users : x.username = "admin") =>
              \A p \in RegisterPasswords, s \in Salts :
                  LET r == register(c, "admin", p, s)
                  IN /\ r.resp.flash = "registered"
                     /\ \E x \in r.users \ users :
                           x.username = "admin" /\ PasswordMatches(x, p)
        /\ \A p \in Passwords, x \in users :
              (x.username = "admin" /\ PasswordMatches(x, p)) =>
                  login(c, "admin", p).session[c] = x.id
        /\ \A r \in AdminResultsOnStoredRows(c) :
              (Authenticated(c) /\ SessionUsername(c) = "admin")
                  <=> ~RedirectsToLogin(r)

\* the user registered second is named "admin" and has just created a Flight
\* in the admin panel
C20_Witness ==
    /\ resp.op = "admin_create_flight" /\ resp.flash = "created"
    /\ \E x \in users : x.id = 2 /\ x.username = "admin"

\* ------------------------------------------------------------------------
\* C18: for every stored Flight, with elapsed = arrival - departure in whole
\* seconds, the details page shows hours and minutes with
\* 0 <= minutes <= 59 and
\* hours*3600 + minutes*60 <= elapsed < hours*3600 + minutes*60 + 60,
\* for negative elapsed times too: leftover seconds are dropped, never
\* rounded up.
C18_DurationTruncates ==
    \A c \in Clients : \A f \in flights :
        LET r == flight_details(c, f.id)
            elapsed == f.arrival_datetime - f.departure_datetime
            hours == r.resp.body[1].duration_hours
            minutes == r.resp.body[1].duration_minutes
        IN /\ r.resp.status = 200
           /\ r.resp.body[1].flight = f
           /\ 0 <= minutes /\ minutes <= 59
           /\ hours * 3600 + minutes * 60 <= elapsed
           /\ elapsed < hours * 3600 + minutes * 60 + 60

\* the details page was shown for a flight that arrives before it departs,
\* with seconds left over
C18_Witness ==
    /\ resp.op = "flight_details"
    /\ resp.status = 200
    /\ resp.body[1].flight.arrival_datetime < resp.body[1].flight.departure_datetime
    /\ (resp.body[1].flight.arrival_datetime
          - resp.body[1].flight.departure_datetime) % 60 # 0
    /\ resp.body[1].duration_hours < 0

\* ------------------------------------------------------------------------
\* C17: each successful booking adds exactly one new Booking, for the
\* requested flight, the acting user and the contact fields as submitted,
\* and leaves every existing Booking, every User and every Flight as it
\* was; nothing is unique across (user, flight), so booking the same flight
\* again adds another Booking with an id of its own.
C17_BookingAddsOne ==
    /\ \A a, b \in bookings : a.id = b.id => a = b
    /\ \A c \in Clients, flight_id \in FlightIds, form \in Forms :
          (Authenticated(c) /\ FlightExists(flight_id) /\ ~SomeFieldEmpty(form))
          => LET r == book_flight(c, flight_id, form)
                 added == r.bookings \ bookings
             IN /\ bookings \subseteq r.bookings
                /\ Cardinality(added) = 1
                /\ Cardinality(r.bookings) = Cardinality(bookings) + 1
                /\ \A b \in added :
                      /\ b.id \notin IdsOf(bookings)
                      /\ b.flight_id = flight_id
                      /\ b.user_id = session[c]
                      /\ b.full_name = form.full_name
                      /\ b.email = form.email
                      /\ b.phone = form.phone
                /\ r.users = users
                /\ r.flights = flights
                /\ r.session = session

\* a user has just booked a flight for the third time: three Bookings of the
\* same user and flight, with the same contact fields
C17_Witness ==
    /\ resp.op = "book_flight"
    /\ resp.flash = "booked"
    /\ \E u \in UserIds, f \in FlightIds :
          Cardinality({b \in bookings : b.user_id = u /\ b.flight_id = f}) = 3

\* ------------------------------------------------------------------------
\* C14: over any sequence of operations, admin deletions that empty the
\* Flight table included, the two default flights are inserted at most once
\* during the lifetime of the store.
C14_SeededAtMostOnce == seeds <= 1

\* C14, amended: the default flights are inserted by every catalog read that
\* finds the Flight table empty, the first one and each one after admin
\* deletions have emptied the table again, and by no read that finds a
\* flight.
C14_SeedsWheneverEmpty ==
    /\ [](\A c \in Clients :
            LET r == index(c)
            IN IF flights = {}
               THEN /\ Cardinality(r.flights) = 2
                    /\ {f.route : f \in r.flights} = {"MOW-SPB", "MOW-EKB"}
               ELSE r.flights = flights)
    /\ [][ /\ (seeds' # seeds)
               => (flights = {} /\ seeds' = seeds + 1 /\ resp'.op = "index")
           /\ (resp'.op = "index" /\ flights = {} /\ flights' # {})
               => (seeds' = seeds + 1) ]_vars

\* the catalog was seeded, emptied by the administrator, and seeded again
C14_Witness ==
    /\ seeds = 2
    /\ resp.op = "index"
    /\ {f.route : f \in flights} = {"MOW-SPB", "MOW-EKB"}

\* ------------------------------------------------------------------------
\* C15: when catalog reads interleave on an empty catalog, the catalog
\* still ends with at most the two default flights: no interleaving leaves
\* more than two seeded Flight records.
C15_AtMostTwoSeeded == Cardinality(flights) <= 2

\* C15, amended: every catalog read that found the catalog empty inserts two
\* default flights of its own, whatever was inserted since it looked, so the
\* catalog holds two Flight records for each such read, each default route
\* once per read: up to four records for two interleaved reads.
C15_TwoPerInterleavedRead ==
    /\ Cardinality(flights) = 2 * seeds
    /\ seeds <= Cardinality(Clients)
    /\ \A route \in {"MOW-SPB", "MOW-EKB"} :
          Cardinality({f \in flights : f.route = route}) = seeds
    /\ \A c \in Clients :
          pc[c].at = "seed_insert"
          => LET r == seed_insert(c)
             IN /\ flights \subseteq r.flights
                /\ Cardinality(r.flights) = Cardinality(flights) + 2

\* two catalog reads both found the catalog empty and both inserted
C15_Witness ==
    /\ seeds = 2
    /\ Cardinality(flights) = 4
    /\ resp.op = "index"

\* ------------------------------------------------------------------------
\* C19: when two registrations of the same username interleave so that both
\* pass the existence check before either commits, the unique constraint on
\* User.username lets at most one commit succeed: no two User records share
\* a username, and the losing request ends in a persistence error, not in
\* the duplicate-username answer.
C19_UniqueUnderInterleaving ==
    /\ \A x, y \in users : x.username = y.username => x = y
    /\ \A c \in Clients :
          (/\ pc[c].at = "register_commit"
           /\ pc[c].username \in {x.username : x \in users})
          => LET r == register_commit(c)
             IN /\ r.users = users
                /\ r.resp.status = 500
                /\ r.resp.flash # "username_taken"
                /\ r.resp.flash # "registered"

\* a registration passed the existence check, lost the race and ended in the
\* persistence error
C19_Witness ==
    /\ resp.op = "register"
    /\ resp.status = 500
    /\ users # {}

====
